---- MODULE Spec2Model ----
(***************************************************************************)
(* honggfuzz util.c: the per-thread MMIX LCG generator (util_rndGet,       *)
(* util_rndBuf) seeded from /dev/urandom, and the interpolation search     *)
(* fastArray64Search.                                                      *)
(*                                                                         *)
(* A uint64_t / size_t value is the sequence of its 8 bytes, least         *)
(* significant first (the layout files_readFromFd fills on a little-endian *)
(* build), so every operation below wraps modulo 2^64 exactly as the C     *)
(* arithmetic does.                                                        *)
(***************************************************************************)
EXTENDS Integers, Sequences, FiniteSets, TLC

\* ------------------------------------------------------------------------
\* Fixed-width unsigned arithmetic on little-endian byte sequences.
\* ------------------------------------------------------------------------

\* The recursive definitions are functions: their arguments are values, so
\* each limb is computed once however often it is used.

Limbs == Seq(Nat)

\* x + y + c over the limbs i.., dropping the carry out of the last limb.
LimbAdd[x \in Limbs, y \in Limbs, i \in Nat, c \in Nat] ==
    IF i > Len(x) THEN <<>>
    ELSE LET s == x[i] + y[i] + c
         IN  <<s % 256>> \o LimbAdd[x, y, i + 1, s \div 256]

\* x - y - b over the limbs i.., dropping the borrow out of the last limb.
LimbSub[x \in Limbs, y \in Limbs, i \in Nat, b \in Nat] ==
    IF i > Len(x) THEN <<>>
    ELSE LET d == x[i] - y[i] - b
         IN  <<(d + 256) % 256>> \o LimbSub[x, y, i + 1, IF d < 0 THEN 1 ELSE 0]

\* -1, 0 or 1 as x <, =, > y, comparing limbs i, i-1, .., 1.
LimbCmp[x \in Limbs, y \in Limbs, i \in Nat] ==
    IF i = 0 THEN 0
    ELSE IF x[i] < y[i] THEN -1
    ELSE IF x[i] > y[i] THEN 1
    ELSE LimbCmp[x, y, i - 1]

\* 2*x + c over the limbs i.., dropping the bit shifted out.
LimbShl[x \in Limbs, i \in Nat, c \in Nat] ==
    IF i > Len(x) THEN <<>>
    ELSE LET s == 2 * x[i] + c
         IN  <<s % 256>> \o LimbShl[x, i + 1, s \div 256]

\* The sum of the limb products x[i] * y[k+1-i] that land in column k.
ColSum[x \in Limbs, y \in Limbs, k \in Nat, i \in Nat] ==
    IF i > Len(x) \/ i > k THEN 0
    ELSE (IF k + 1 - i <= Len(y) THEN x[i] * y[k + 1 - i] ELSE 0)
         + ColSum[x, y, k, i + 1]

\* The low n limbs of x * y, columns k..n, with carry c into column k.
LimbMul[x \in Limbs, y \in Limbs, k \in Nat, n \in Nat, c \in Nat] ==
    IF k > n THEN <<>>
    ELSE LET s == c + ColSum[x, y, k, 1]
         IN  <<s % 256>> \o LimbMul[x, y, k + 1, n, s \div 256]

\* Bit i (0 = least significant) of x.
Bit(x, i) == (x[(i \div 8) + 1] \div (2 ^ (i % 8))) % 2

Zero64 == <<0, 0, 0, 0, 0, 0, 0, 0>>
One64  == <<1, 0, 0, 0, 0, 0, 0, 0>>
Max64  == <<255, 255, 255, 255, 255, 255, 255, 255>>

\* A quotient and a remainder.
QuoRem == [q : Limbs, r : Limbs]

\* The quotient with bit i set when the divisor went into the remainder.
SetBit[res \in QuoRem, i \in Nat, on \in BOOLEAN] ==
    IF on THEN [q |-> [res.q EXCEPT ![(i \div 8) + 1] = @ + 2 ^ (i % 8)], r |-> res.r]
    ELSE res

\* Long division of x by d (d # 0; d and r carry one extra limb): bits
\* i, i-1, .., 0 of x are shifted into the remainder r.
DivBits[x \in Limbs, d \in Limbs, i \in Int, r \in Limbs] ==
    IF i < 0 THEN [q |-> Zero64, r |-> r]
    ELSE LET r2 == LimbShl[r, 1, Bit(x, i)]
             ge == LimbCmp[r2, d, Len(d)] >= 0
         IN  SetBit[DivBits[x, d, i - 1, IF ge THEN LimbSub[r2, d, 1, 0] ELSE r2], i, ge]

\* The uint64_t of a small natural number (n < 2^24).
U64Of(n) == <<n % 256, (n \div 256) % 256, (n \div 65536) % 256, 0, 0, 0, 0, 0>>

\* The natural number of a uint64_t below 2^24 (array indexes in bounds).
NatOf(x) == x[1] + 256 * x[2] + 65536 * x[3]

U64Add(x, y) == LimbAdd[x, y, 1, 0]
U64Sub(x, y) == LimbSub[x, y, 1, 0]
U64Mul(x, y) == LimbMul[x, y, 1, 8, 0]
U64Lt(x, y)  == LimbCmp[x, y, 8] < 0
U64Le(x, y)  == LimbCmp[x, y, 8] <= 0

\* Long division by a divisor below 2^23, a byte at a time in machine
\* integers: the quotient bytes of bytes k, k-1, .., 1 of x, where r is what
\* the bytes above them left.
SmallQuo[x \in Limbs, dn \in Nat, k \in Nat, r \in Nat] ==
    IF k = 0 THEN <<>>
    ELSE SmallQuo[x, dn, k - 1, (r * 256 + x[k]) % dn] \o <<(r * 256 + x[k]) \div dn>>

\* The remainder of the same division.
SmallRem[x \in Limbs, dn \in Nat, k \in Nat, r \in Nat] ==
    IF k = 0 THEN r ELSE SmallRem[x, dn, k - 1, (r * 256 + x[k]) % dn]

\* The number of bytes of d up to its most significant non-zero byte.
Bytes[d \in Limbs, k \in Nat] == IF k = 0 \/ d[k] # 0 THEN k ELSE Bytes[d, k - 1]

\* x / d and x % d for d # 0. The top Bytes(d) - 1 bytes of x are below d,
\* so they start the remainder and only the bits under them are divided.
DivModOf[x \in Limbs, d \in Limbs] ==
    LET nb == Bytes[d, 8]
        k0 == 9 - nb
    IN  IF nb < 3 \/ (nb = 3 /\ d[3] < 128)
        THEN [q |-> SmallQuo[x, NatOf(d), 8, 0], r |-> U64Of(SmallRem[x, NatOf(d), 8, 0])]
        ELSE LET res == DivBits[x, d \o <<0>>, 8 * k0 - 1,
                                SubSeq(x, k0 + 1, 8) \o [i \in 1..(k0 + 1) |-> 0]]
             IN  [q |-> res.q, r |-> SubSeq(res.r, 1, 8)]

U64DivMod(x, d) == DivModOf[x, d]
U64Div(x, d) == U64DivMod(x, d).q
U64Mod(x, d) == U64DivMod(x, d).r

\* The product of two uint64_t without the wrap: 16 limbs.
WideMul(x, y) == LimbMul[x, y, 1, 16, 0]

\* ------------------------------------------------------------------------
\* State.
\* ------------------------------------------------------------------------

VARIABLES
    \* fastArray64Search: one call
    array,      \* the caller's array (arraySz is its length)
    key,        \* the key searched for
    low, high,  \* the bracket
    mid,        \* the last probe
    spc,        \* position in the function
    sret,       \* the int64_t returned, as its 64-bit pattern
    sres,       \* how the call ended
    iters,      \* loop bodies executed
    plow, phigh,\* the bracket the last loop body started from
    branch,     \* the branch the last loop body took
    outside,    \* the memory outside the array that the call has read
    strayed,    \* whether the call has evaluated array[i] with i >= arraySz
    \* util_rndGet / util_rndBuf: the process and its threads
    util_urandomFd, \* the static descriptor, -1 until opened
    rndX,       \* per thread: the LCG state
    rndIni,     \* per thread: whether rndX has been seeded
    pc,         \* per thread: position in util_rndGet / util_rndBuf
    frame,      \* per thread: arguments and locals of the call in progress
    mem,        \* per thread: the caller's memory that holds buf
    proc,       \* "run", or how the process ended
    opens,      \* successful open()s of /dev/urandom so far
    entropy,    \* the bytes /dev/urandom will deliver
    entPos,     \* how many of them have been delivered
    hist        \* per thread: what the thread has done (history only)

svars == <<array, key, low, high, mid, spc, sret, sres, iters, plow, phigh, branch,
           outside, strayed>>

rvars == <<util_urandomFd, rndX, rndIni, pc, frame, mem, proc, opens,
           entropy, entPos, hist>>

vars == <<svars, rvars>>

\* ------------------------------------------------------------------------
\* fastArray64Search
\* ------------------------------------------------------------------------

MaxLen == 4
MaxVal == 2
MaxOutside == 4

\* return -1, as the int64_t's bit pattern
NotFound == Max64

ArraySz(arr) == U64Of(Len(arr))

\* size_t high = arraySz - 1;
InitHigh(sz) == U64Sub(sz, One64)

\* Whether array[i] lies inside the caller's array.
InBounds(arr, i) == U64Lt(i, ArraySz(arr))

\* array[i], for i in bounds
Elem(arr, i) == arr[NatOf(i) + 1]

\* The loop condition with key < array[high] for key <= array[high].
LoopCondStrict(ah, al, k) == ah # al /\ U64Le(al, k) /\ U64Lt(k, ah)

\* The loop condition without the test array[high] != array[low].
LoopCondNoCollapse(ah, al, k) == U64Le(al, k) /\ U64Le(k, ah)

\* array[high] != array[low] && key >= array[low] && key <= array[high]
LoopCond(ah, al, k) == ah # al /\ U64Le(al, k) /\ U64Le(k, ah)

\* (high - low) / (array[high] - array[low])
Ratio(lo, hi, al, ah) == U64Div(U64Sub(hi, lo), U64Sub(ah, al))

\* mid = low + (key - array[low]) * q, for the quotient q
ProbeAt(lo, al, k, q) == U64Add(lo, U64Mul(U64Sub(k, al), q))

\* mid = low + (key - array[low]) * ((high - low) / (array[high] - array[low]))
Probe(lo, hi, al, ah, k) == ProbeAt(lo, al, k, Ratio(lo, hi, al, ah))

\* low = mid for low = mid + 1
NextLowStuck(m) == m

\* low = mid + 1
NextLow(m) == U64Add(m, One64)

\* high = mid - 1
NextHigh(m) == U64Sub(m, One64)

\* The exit without the final comparison of array[low] with the key.
ExitResultLost(al, lo, k) == NotFound

\* if (key == array[low]) return low; else return -1;
ExitResult(al, lo, k) == IF k = al THEN lo ELSE NotFound

\* The whole call as a function, for an array the loop never leaves.
RECURSIVE SearchLoop(_, _, _, _)
SearchLoop(arr, k, lo, hi) ==
    LET ah == Elem(arr, hi)
        al == Elem(arr, lo)
    IN  IF LoopCond(ah, al, k)
        THEN LET m  == Probe(lo, hi, al, ah, k)
                 am == Elem(arr, m)
             IN  IF U64Lt(am, k) THEN SearchLoop(arr, k, NextLow(m), hi)
                 ELSE IF U64Lt(k, am) THEN SearchLoop(arr, k, lo, NextHigh(m))
                 ELSE m
        ELSE ExitResult(al, lo, k)

fastArray64Search(arr, k) == SearchLoop(arr, k, Zero64, InitHigh(ArraySz(arr)))

\* The inputs: every ascending array of up to MaxLen values, and the
\* arrays of the documented scenarios.
Vals == {U64Of(n) : n \in 0..MaxVal} \cup {Max64}

SortedArrays ==
    UNION {{a \in [1..n -> Vals] : \A i \in 1..(n - 1) : U64Le(a[i], a[i + 1])}
           : n \in 0..MaxLen}

ScenarioArrays ==
    {<<U64Of(1), U64Of(3), U64Of(5), U64Of(5), U64Of(5), U64Of(9), U64Of(20)>>,
     <<U64Of(10)>>}

ScenarioKeys == {U64Of(5), U64Of(10), U64Of(4)}

IterCap == MaxLen + 8

SearchInit ==
    /\ \/ array \in SortedArrays /\ key \in Vals
       \/ array \in ScenarioArrays /\ key \in ScenarioKeys
    /\ low = Zero64 /\ high = Zero64 /\ mid = Zero64
    /\ spc = "call" /\ sret = Zero64 /\ sres = "running"
    /\ iters = 0 /\ plow = Zero64 /\ phigh = Zero64 /\ branch = "none"
    /\ outside = {} /\ strayed = FALSE

\* The function has no bounds check: array[i] for an i outside the array is
\* a read of whatever memory surrounds the array. That memory is not the
\* function's to choose: a word of it is either unmapped, and the read
\* faults, or holds some value, which the read returns and every later read
\* of the same word returns again. The memory w is the set of <<word, value>>
\* of the words read so far. Runs that read more than MaxOutside words
\* around the array are not followed.

\* The word array[i] is: the build addresses array + 8 * i modulo 2^64, so
\* the index counts modulo 2^61.
WordOf(i) == [i EXCEPT ![8] = @ % 32]

\* Memory is mapped by pages of 4096 bytes: 512 words.
PageWords == 512

\* Whether the word a has been read from w.
Mapped(w, a) == \E p \in w : p[1] = a

\* array[i]: the array's element, or the word of the surrounding memory.
Load(arr, w, i) ==
    LET a == WordOf(i)
    IN  IF InBounds(arr, a) THEN Elem(arr, a) ELSE (CHOOSE p \in w : p[1] = a)[2]

\* The words among array[i], i in idx, that lie outside the array and were
\* not read yet.
Unread(arr, w, idx) ==
    {WordOf(i) : i \in {j \in idx : ~InBounds(arr, WordOf(j)) /\ ~Mapped(w, WordOf(j))}}

\* The words known to be mapped: the array's and those read around it.
MappedWords(arr, w) == {U64Of(n) : n \in 0..(Len(arr) - 1)} \cup {p[1] : p \in w}

\* The words from a up to b, modulo 2^61, when fewer than a page.
Gap(a, b) ==
    LET d == WordOf(U64Sub(b, a))
    IN  IF U64Lt(d, U64Of(PageWords)) THEN NatOf(d) ELSE PageWords

\* The word a lies between two mapped words less than a page apart, so it
\* is in the page of one of them and is mapped itself.
Pinned(arr, w, a) ==
    \E p, q \in MappedWords(arr, w) : Gap(p, a) + Gap(a, q) < PageWords

\* The reads of array[i], i in idx, stay within the words followed.
WithinCap(arr, w, idx) ==
    Cardinality(w) + Cardinality(Unread(arr, w, idx)) <= MaxOutside

\* The surrounding memory after the reads of array[i], i in idx, when none
\* of them faults: a first read of a word finds any value there.
ReadOutcomes(arr, w, idx) ==
    LET new == Unread(arr, w, idx)
    IN  IF WithinCap(arr, w, idx)
        THEN {w \cup {<<a, f[a]>> : a \in new} : f \in [new -> Vals]}
        ELSE {}

\* A first read outside the array may hit an unmapped page.
CanFault(arr, w, idx) ==
    /\ WithinCap(arr, w, idx)
    /\ \E a \in Unread(arr, w, idx) : ~Pinned(arr, w, a)

\* Whether one of the indexes is outside 0 .. arraySz - 1.
Strays(arr, idx) == \E i \in idx : ~InBounds(arr, i)

\* The process is killed by the signal; the call never returns.
SearchFault(sig) == spc' = "done" /\ sres' = sig /\ sret' = sret

\* size_t low = 0; size_t high = arraySz - 1;
SearchEnter ==
    /\ spc = "call"
    /\ low' = Zero64
    /\ high' = InitHigh(ArraySz(array))
    /\ spc' = "guard"
    /\ UNCHANGED <<array, key, mid, sret, sres, iters, plow, phigh, branch, outside,
                   strayed>>
    /\ UNCHANGED rvars

\* while (array[high] != array[low] && key >= array[low] && key <= array[high])
SearchGuard ==
    /\ spc = "guard"
    /\ strayed' = (strayed \/ Strays(array, {high, low}))
    /\ \/ \E w \in ReadOutcomes(array, outside, {high, low}) :
            /\ outside' = w
            /\ spc' = IF LoopCond(Load(array, w, high), Load(array, w, low), key)
                      THEN "body" ELSE "exit"
            /\ UNCHANGED <<sret, sres>>
       \/ /\ CanFault(array, outside, {high, low})
          /\ SearchFault("sigsegv")
          /\ UNCHANGED outside
    /\ UNCHANGED <<array, key, low, high, mid, iters, plow, phigh, branch>>
    /\ UNCHANGED rvars

\* The branch on array[mid] for the probe m and the memory w read so far.
SearchBranch(m, w) ==
    LET am == Load(array, w, m)
    IN  IF U64Lt(am, key)
        THEN /\ low' = NextLow(m) /\ branch' = "lt" /\ spc' = "guard"
             /\ UNCHANGED <<high, sret, sres>>
        ELSE IF U64Lt(key, am)
        THEN /\ high' = NextHigh(m) /\ branch' = "gt" /\ spc' = "guard"
             /\ UNCHANGED <<low, sret, sres>>
        ELSE /\ sret' = m /\ sres' = "returned" /\ branch' = "eq"
             /\ spc' = "done"
             /\ UNCHANGED <<low, high>>

\* The probe with the quotient q, the read of array[mid] and the branch.
SearchProbe(al, q) ==
    LET m == ProbeAt(low, al, key, q)
    IN  /\ mid' = m
        /\ strayed' = (strayed \/ Strays(array, {m}))
        /\ \/ \E w \in ReadOutcomes(array, outside, {m}) :
                outside' = w /\ SearchBranch(m, w)
           \/ /\ CanFault(array, outside, {m})
              /\ SearchFault("sigsegv")
              /\ UNCHANGED <<low, high, branch, outside>>

\* The loop body: the probe and the three-way branch on array[mid]. The
\* guard has read array[low] and array[high]. A division by 0 is undefined:
\* it traps (x86-64 div) or leaves 0 in the quotient (AArch64 udiv).
SearchBody ==
    /\ spc = "body"
    /\ iters' = IF iters < IterCap THEN iters + 1 ELSE iters
    /\ plow' = low /\ phigh' = high
    /\ LET al == Load(array, outside, low)
           ah == Load(array, outside, high)
       IN  IF ah = al
           THEN \/ /\ SearchFault("sigfpe")
                   /\ UNCHANGED <<low, high, mid, branch, outside, strayed>>
                \/ SearchProbe(al, Zero64)
           ELSE SearchProbe(al, Ratio(low, high, al, ah))
    /\ UNCHANGED <<array, key>>
    /\ UNCHANGED rvars

\* if (key == array[low]) return low; else return -1;
SearchExit ==
    /\ spc = "exit"
    /\ strayed' = (strayed \/ Strays(array, {low}))
    /\ \/ \E w \in ReadOutcomes(array, outside, {low}) :
            /\ outside' = w
            /\ sret' = ExitResult(Load(array, w, low), low, key)
            /\ sres' = "returned"
            /\ spc' = "done"
       \/ /\ CanFault(array, outside, {low})
          /\ SearchFault("sigsegv")
          /\ UNCHANGED outside
    /\ UNCHANGED <<array, key, low, high, mid, iters, plow, phigh, branch>>
    /\ UNCHANGED rvars

SearchNext == SearchEnter \/ SearchGuard \/ SearchBody \/ SearchExit


\* ------------------------------------------------------------------------
\* util_rndGet, util_rndBuf
\* ------------------------------------------------------------------------

MaxCalls == 2
BufCap == 2

Threads == {"t1", "t2"}

\* static const uint64_t a = 6364136223846793005ULL;  (0x5851F42D4C957F2D)
LcgA == <<45, 127, 149, 76, 45, 244, 81, 88>>
\* static const uint64_t c = 1442695040888963407ULL;  (0x14057B7EF767814F)
LcgC == <<79, 129, 103, 247, 126, 123, 5, 20>>
\* 1ULL << 62
Two62 == <<0, 0, 0, 0, 0, 0, 0, 64>>

\* x = (a * x + c)
Lcg(x) == U64Add(U64Mul(LcgA, x), LcgC)

\* max - min + 1
RangeWidth(min, max) == U64Add(U64Sub(max, min), One64)

\* (rndX % (max - min + 1)) + min, for a width that is not 0
Reduce(x, min, max) == U64Add(U64Mod(x, RangeWidth(min, max)), min)

\* (uint8_t) (x & 0xFF)
LowByte(x) == x[1]

\* i <= sz for i < sz
BufLoopCondInclusive(i, sz) == i <= sz

\* for (size_t i = 0; i < sz; i++)
BufLoopCond(i, sz) == i < sz

\* Seeding on every call, as if rndIni were never set.
NeedSeedAlways(t) == TRUE

\* if (rndIni == false)
NeedSeed(t) == rndIni[t] = FALSE

\* The store with rndX an ordinary static, shared by the threads.
StoreRndXShared(t, v) == [u \in Threads |-> v]

\* The thread-local store rndX = v of thread t.
StoreRndX(t, v) == [rndX EXCEPT ![t] = v]

\* files_readFromFd(fd, buf, n): the bytes the descriptor delivers, fewer
\* than n when the source runs out; none through a descriptor that is not open.
ReadFromFd(fd, n) ==
    IF fd = -1 THEN <<>>
    ELSE SubSeq(entropy, entPos + 1,
                IF entPos + n <= Len(entropy) THEN entPos + n ELSE Len(entropy))

\* LOG_F / PLOG_F: report and end the process.
LogFatal(why) == proc' = why

\* n LCG steps from x.
RECURSIVE LcgIter(_, _)
LcgIter(x, n) == IF n = 0 THEN x ELSE LcgIter(Lcg(x), n - 1)

\* The calls the threads make.
\* The calls made so far, over all threads.
TotalCalls ==
    LET RECURSIVE Sum(_)
        Sum(S) == IF S = {} THEN 0
                  ELSE LET t == CHOOSE u \in S : TRUE
                       IN  hist[t].calls + Sum(S \ {t})
    IN  Sum(Threads)

ArgPairs ==
    {<<U64Of(3), U64Of(10)>>, <<U64Of(10), U64Of(3)>>,
     <<U64Of(5), U64Of(5)>>, <<Zero64, Max64>>}

SeedA == <<17, 34, 51, 68, 85, 102, 119, 136>>
SeedB == <<254, 220, 186, 152, 118, 84, 50, 16>>

\* What /dev/urandom delivers: enough for every thread, or too little for
\* the last reader.
EntropyStreams == {SeedA \o SeedB, SeedB \o SubSeq(SeedA, 1, 4)}

IdleFrame ==
    [op |-> "none", min |-> Zero64, max |-> Zero64, ret |-> Zero64,
     x |-> Zero64, i |-> 0, sz |-> 0, steps0 |-> 0, wr |-> {}, mem0 |-> <<>>,
     fd |-> -1]

NoHist == [calls |-> 0, reads |-> 0, seed |-> Zero64, seededAt |-> 0, steps |-> 0,
           readFd |-> 0]

RndInit ==
    /\ util_urandomFd = -1
    /\ rndX = [t \in Threads |-> Zero64]
    /\ rndIni = [t \in Threads |-> FALSE]
    /\ pc = [t \in Threads |-> "idle"]
    /\ frame = [t \in Threads |-> IdleFrame]
    /\ mem = [t \in Threads |-> [i \in 1..(BufCap + 1) |-> 0]]
    /\ proc = "run"
    /\ opens = 0
    /\ entropy \in EntropyStreams
    /\ entPos = 0
    /\ hist = [t \in Threads |-> NoHist]

\* if (min > max) LOG_F(...): the first statement of util_rndGet, on the
\* arguments alone.
RangeCheck(t, min, max) ==
    IF U64Lt(max, min)
    THEN LogFatal("fatal_range") /\ pc' = [pc EXCEPT ![t] = "L87"]
    ELSE pc' = [pc EXCEPT ![t] = "L91"] /\ UNCHANGED proc

\* A caller enters util_rndGet(min, max).
CallRndGet(t) ==
    /\ proc = "run" /\ pc[t] = "idle" /\ TotalCalls < MaxCalls
    /\ \E p \in ArgPairs :
          /\ frame' = [frame EXCEPT ![t] = [IdleFrame EXCEPT !.op = "get",
                                             !.min = p[1], !.max = p[2],
                                             !.steps0 = hist[t].steps]]
          /\ RangeCheck(t, p[1], p[2])
    /\ hist' = [hist EXCEPT ![t].calls = @ + 1]
    /\ UNCHANGED <<util_urandomFd, rndX, rndIni, mem, opens, entropy, entPos>>
    /\ UNCHANGED svars

\* A caller enters util_rndBuf(buf, sz), which starts with
\* uint64_t x = util_rndGet(0, 1ULL << 62);
CallRndBuf(t) ==
    /\ proc = "run" /\ pc[t] = "idle" /\ TotalCalls < MaxCalls
    /\ \E n \in 0..BufCap :
          frame' = [frame EXCEPT ![t] = [IdleFrame EXCEPT !.op = "buf", !.sz = n,
                                          !.min = Zero64, !.max = Two62,
                                          !.steps0 = hist[t].steps,
                                          !.mem0 = mem[t]]]
    /\ RangeCheck(t, Zero64, Two62)
    /\ hist' = [hist EXCEPT ![t].calls = @ + 1]
    /\ UNCHANGED <<util_urandomFd, rndX, rndIni, mem, opens, entropy, entPos>>
    /\ UNCHANGED svars

\* if (util_urandomFd == -1)
RndCheckFd(t) ==
    /\ proc = "run" /\ pc[t] = "L91"
    /\ pc' = [pc EXCEPT ![t] = IF util_urandomFd = -1 THEN "L92" ELSE "L97"]
    /\ UNCHANGED <<util_urandomFd, rndX, rndIni, frame, mem, proc, opens, entropy,
                   entPos, hist>>
    /\ UNCHANGED svars

\* open("/dev/urandom", O_RDONLY): the system call returns a new
\* descriptor, or -1. No lock is held: the result is in the thread's hands
\* (frame.fd) and not yet in util_urandomFd.
RndOpen(t) ==
    /\ proc = "run" /\ pc[t] = "L92"
    /\ \/ /\ opens' = opens + 1
          /\ frame' = [frame EXCEPT ![t].fd = opens + 1]
       \/ /\ frame' = [frame EXCEPT ![t].fd = -1]
          /\ UNCHANGED opens
    /\ pc' = [pc EXCEPT ![t] = "L92s"]
    /\ UNCHANGED <<util_urandomFd, rndX, rndIni, mem, proc, entropy, entPos, hist>>
    /\ UNCHANGED svars

\* util_urandomFd = <the result of open()>: the store into the shared static
RndStoreFd(t) ==
    /\ proc = "run" /\ pc[t] = "L92s"
    /\ util_urandomFd' = frame[t].fd
    /\ pc' = [pc EXCEPT ![t] = "L92t"]
    /\ UNCHANGED <<rndX, rndIni, frame, mem, proc, opens, entropy, entPos, hist>>
    /\ UNCHANGED svars

\* The value the test (util_urandomFd = open(...)) == -1 compares: the
\* result the thread holds, or util_urandomFd read again after the store (as
\* an unoptimised build does), which another thread may have stored since.
\* The static is neither locked nor atomic, so the build decides.
TestedFd(t) == {frame[t].fd, util_urandomFd}

\* if ((util_urandomFd = open(...)) == -1): the test, after the store
RndTestFd(t) ==
    /\ proc = "run" /\ pc[t] = "L92t"
    /\ \E v \in TestedFd(t) :
          pc' = [pc EXCEPT ![t] = IF v = -1 THEN "L93" ELSE "L97"]
    /\ UNCHANGED <<util_urandomFd, rndX, rndIni, frame, mem, proc, opens, entropy,
                   entPos, hist>>
    /\ UNCHANGED svars

\* PLOG_F("Couldn't open /dev/urandom for writing");
RndOpenFatal(t) ==
    /\ proc = "run" /\ pc[t] = "L93"
    /\ LogFatal("fatal_open")
    /\ UNCHANGED <<util_urandomFd, rndX, rndIni, pc, frame, mem, opens, entropy,
                   entPos, hist>>
    /\ UNCHANGED svars

\* if (rndIni == false), and the load of util_urandomFd, the first argument
\* of files_readFromFd
RndSeedCheck(t) ==
    /\ proc = "run" /\ pc[t] = "L97"
    /\ IF NeedSeed(t)
       THEN /\ frame' = [frame EXCEPT ![t].fd = util_urandomFd]
            /\ pc' = [pc EXCEPT ![t] = "L98"]
       ELSE /\ pc' = [pc EXCEPT ![t] = "L108"]
            /\ UNCHANGED frame
    /\ UNCHANGED <<util_urandomFd, rndX, rndIni, mem, proc, opens, entropy, entPos,
                   hist>>
    /\ UNCHANGED svars

\* files_readFromFd(fd, (uint8_t *) & rndX, sizeof(rndX)) != sizeof(rndX),
\* through the descriptor loaded before; rndIni = true; after a full read.
RndSeed(t) ==
    /\ proc = "run" /\ pc[t] = "L98"
    /\ LET got == ReadFromFd(frame[t].fd, 8)
       IN  /\ rndX' = StoreRndX(t, got \o SubSeq(rndX[t], Len(got) + 1, 8))
           /\ entPos' = entPos + Len(got)
           /\ hist' = [hist EXCEPT ![t].reads = @ + 1,
                                   ![t].readFd = frame[t].fd,
                                   ![t].seed = IF Len(got) = 8 THEN got ELSE @,
                                   ![t].seededAt = IF Len(got) = 8
                                                   THEN hist[t].calls ELSE @]
           /\ IF Len(got) # 8
              THEN /\ pc' = [pc EXCEPT ![t] = "L99"]
                   /\ UNCHANGED rndIni
              ELSE /\ rndIni' = [rndIni EXCEPT ![t] = TRUE]
                   /\ pc' = [pc EXCEPT ![t] = "L108"]
    /\ UNCHANGED <<util_urandomFd, frame, mem, proc, opens, entropy>>
    /\ UNCHANGED svars

\* PLOG_F("Couldn't read '%zu' bytes from /dev/urandom", sizeof(rndX));
RndReadFatal(t) ==
    /\ proc = "run" /\ pc[t] = "L99"
    /\ LogFatal("fatal_read")
    /\ UNCHANGED <<util_urandomFd, rndX, rndIni, pc, frame, mem, opens, entropy,
                   entPos, hist>>
    /\ UNCHANGED svars

\* rndX = (a * rndX + c); return ((rndX % (max - min + 1)) + min);
\* A width of 0 makes the % a division by zero: the build either traps
\* (SIGFPE) or, where the divide instruction does not trap, leaves rndX.
\* In util_rndBuf the value returned initialises x.
RndLcg(t) ==
    /\ proc = "run" /\ pc[t] = "L108"
    /\ LET x == Lcg(rndX[t])
           f == frame[t]
           next == IF f.op = "buf" THEN "loop" ELSE "ret"
       IN  /\ rndX' = StoreRndX(t, x)
           /\ hist' = [hist EXCEPT ![t].steps = @ + 1]
           /\ IF RangeWidth(f.min, f.max) = Zero64
              THEN \/ /\ proc' = "sigfpe"
                      /\ UNCHANGED <<pc, frame>>
                   \/ /\ frame' = [frame EXCEPT ![t].ret = U64Add(x, f.min),
                                                ![t].x = U64Add(x, f.min)]
                      /\ pc' = [pc EXCEPT ![t] = next]
                      /\ UNCHANGED proc
              ELSE /\ LET r == Reduce(x, f.min, f.max)
                      IN  frame' = [frame EXCEPT ![t].ret = r, ![t].x = r]
                   /\ pc' = [pc EXCEPT ![t] = next]
                   /\ UNCHANGED proc
    /\ UNCHANGED <<util_urandomFd, rndIni, mem, opens, entropy, entPos>>
    /\ UNCHANGED svars

\* for (size_t i = 0; i < sz; i++) { x = (a * x + c); buf[i] = (uint8_t) (x & 0xFF); }
BufLoop(t) ==
    /\ proc = "run" /\ pc[t] = "loop"
    /\ LET f == frame[t]
       IN  IF BufLoopCond(f.i, f.sz)
           THEN LET x == Lcg(f.x)
                IN  /\ frame' = [frame EXCEPT ![t].x = x, ![t].i = f.i + 1,
                                              ![t].wr = f.wr \cup {f.i}]
                    /\ mem' = [mem EXCEPT ![t][f.i + 1] = LowByte(x)]
                    /\ UNCHANGED pc
           ELSE /\ pc' = [pc EXCEPT ![t] = "ret"]
                /\ UNCHANGED <<frame, mem>>
    /\ UNCHANGED <<util_urandomFd, rndX, rndIni, proc, opens, entropy, entPos, hist>>
    /\ UNCHANGED svars

\* The call returns to its caller.
Return(t) ==
    /\ proc = "run" /\ pc[t] = "ret"
    /\ pc' = [pc EXCEPT ![t] = "idle"]
    /\ frame' = [frame EXCEPT ![t] = IdleFrame]
    /\ UNCHANGED <<util_urandomFd, rndX, rndIni, mem, proc, opens, entropy, entPos, hist>>
    /\ UNCHANGED svars

ThreadStep(t) ==
    \/ CallRndGet(t) \/ CallRndBuf(t) \/ RndCheckFd(t)
    \/ RndOpen(t) \/ RndStoreFd(t) \/ RndTestFd(t) \/ RndOpenFatal(t)
    \/ RndSeedCheck(t) \/ RndSeed(t) \/ RndReadFatal(t)
    \/ RndLcg(t) \/ BufLoop(t) \/ Return(t)

RndNext == \E t \in Threads : ThreadStep(t)

\* No search is in progress.
SearchIdle ==
    /\ array = <<>> /\ key = Zero64
    /\ low = Zero64 /\ high = Zero64 /\ mid = Zero64
    /\ spc = "none" /\ sret = Zero64 /\ sres = "running"
    /\ iters = 0 /\ plow = Zero64 /\ phigh = Zero64 /\ branch = "none"
    /\ outside = {} /\ strayed = FALSE

\* No thread uses the generator.
RndIdle ==
    /\ util_urandomFd = -1
    /\ rndX = [t \in Threads |-> Zero64]
    /\ rndIni = [t \in Threads |-> FALSE]
    /\ pc = [t \in Threads |-> "idle"]
    /\ frame = [t \in Threads |-> IdleFrame]
    /\ mem = [t \in Threads |-> [i \in 1..(BufCap + 1) |-> 0]]
    /\ proc = "run"
    /\ opens = 0
    /\ entropy = <<>>
    /\ entPos = 0
    /\ hist = [t \in Threads |-> NoHist]

Init == RndInit /\ SearchIdle
Next == RndNext
Spec == Init /\ [][Next]_vars

InitSearch == SearchInit /\ RndIdle

SpecSearch == InitSearch /\ [][SearchNext]_vars

SpecSearchFair == SpecSearch /\ WF_vars(SearchNext)

\* ------------------------------------------------------------------------
\* Properties of util_rndGet and util_rndBuf (checked under Spec).
\* ------------------------------------------------------------------------

\* A thread whose util_rndGet call has produced its return value.
Returned(t) == pc[t] \in {"ret", "loop"}

\* C1: every util_rndGet(min, max) either returns a value in [min, max]
\* (when min <= max) or takes the fatal path (when min > max); no call with
\* min <= max ends any other way, the full range 0 .. 2^64-1 included.
C1_RangeContract ==
    /\ proc # "sigfpe"
    /\ \A t \in Threads :
          /\ Returned(t) /\ frame[t].op = "get" =>
                /\ U64Le(frame[t].min, frame[t].max)
                /\ U64Le(frame[t].min, frame[t].ret)
                /\ U64Le(frame[t].ret, frame[t].max)
          /\ pc[t] = "L87" => proc = "fatal_range" /\ U64Lt(frame[t].max, frame[t].min)

\* C2: /dev/urandom is opened at most once in the life of the process,
\* whatever the interleaving of the first calls, and no thread reads its
\* seed through a descriptor that is still -1.
C2_OpenedAtMostOnce ==
    /\ opens <= 1
    /\ \A t \in Threads : hist[t].reads > 0 => hist[t].readFd # -1

\* The k-th 8-byte word of the entropy stream (k = 0 is the first).
EntropyWord(k) ==
    IF 8 * k + 8 <= Len(entropy) THEN SubSeq(entropy, 8 * k + 1, 8 * k + 8) ELSE <<>>

\* C5 as claimed: a thread's stream is the same under every interleaving,
\* so it is the stream of the run in which the thread is the first to seed:
\* the stream that starts from the first word of the entropy source.
C5_SameUnderEveryInterleaving ==
    \A t \in Threads :
        rndIni[t] => rndX[t] = LcgIter(EntropyWord(0), hist[t].steps)

\* What a step of thread t may not touch: the other threads' generator
\* state, call frames, buffers and positions.
OthersUntouched(t) ==
    \A u \in Threads \ {t} :
        /\ rndX'[u] = rndX[u] /\ rndIni'[u] = rndIni[u]
        /\ frame'[u] = frame[u] /\ mem'[u] = mem[u]
        /\ pc'[u] = pc[u] /\ hist'[u] = hist[u]

\* C5 as amended: no step of one thread changes the generator state, frame
\* or buffer of another; a seeded thread's state is the LCG iterate of its
\* own seed by the number of its own calls; the seed is a whole word of the
\* entropy stream, and which word depends on the order of seeding.
C5_IsolatedAfterSeeding ==
    /\ [][\A t \in Threads : ThreadStep(t) => OthersUntouched(t)]_vars
    /\ [](\A t \in Threads :
            rndIni[t] =>
                /\ rndX[t] = LcgIter(hist[t].seed, hist[t].steps)
                /\ \E k \in 0..(Cardinality(Threads) - 1) :
                      hist[t].seed = EntropyWord(k))

\* Both threads are seeded, t1 with the second word of the stream, and
\* each has drawn from its generator.
C5_Witness ==
    /\ rndIni["t1"] /\ rndIni["t2"]
    /\ hist["t1"].seed = EntropyWord(1) /\ hist["t2"].seed = EntropyWord(0)
    /\ hist["t1"].steps >= 1 /\ hist["t2"].steps >= 1

\* C6: a thread reads the entropy source once, in its first call; once
\* rndIni is true it stays true, the thread reads no more entropy and its
\* state moves only by LCG steps; a short read is fatal and leaves rndIni
\* false.
C6_SeedsExactlyOnce ==
    /\ [](\A t \in Threads :
            /\ hist[t].reads <= 1
            /\ rndIni[t] => hist[t].reads = 1 /\ hist[t].seededAt = 1
            /\ (pc[t] \in {"L108", "ret", "loop"} \/ hist[t].steps > 0) => rndIni[t]
            /\ (hist[t].reads = 1 /\ ~rndIni[t]) => pc[t] = "L99")
    /\ [](proc = "fatal_read" =>
            \E t \in Threads : pc[t] = "L99" /\ ~rndIni[t] /\ hist[t].reads = 1)
    /\ [][\A t \in Threads : pc[t] = "L99" => pc'[t] = "L99" /\ ~rndIni'[t]]_vars
    /\ [][\A t \in Threads :
            rndIni[t] =>
                /\ rndIni'[t]
                /\ hist'[t].reads = hist[t].reads
                /\ hist'[t].seed = hist[t].seed
                /\ rndX'[t] = rndX[t] \/ rndX'[t] = Lcg(rndX[t])]_vars

\* A thread has finished its second call having read the entropy source in
\* its first.
C6_Witness ==
    \E t \in Threads :
        /\ hist[t].calls = 2 /\ pc[t] = "ret" /\ hist[t].steps = 2
        /\ hist[t].reads = 1 /\ rndIni[t]

\* C7: when util_rndBuf(buf, sz) returns it has written buf[0..sz-1] and
\* nothing else, byte i is the low byte of the (i+1)-th LCG iterate of
\* rndX % (2^62 + 1), and rndX itself has moved by the one step of the
\* util_rndGet(0, 1 << 62) call.
C7_BufFrame ==
    \A t \in Threads :
        (pc[t] = "ret" /\ frame[t].op = "buf") =>
            LET f  == frame[t]
                x0 == U64Mod(rndX[t], U64Add(Two62, One64))
            IN  /\ f.wr = 0..(f.sz - 1)
                /\ \A i \in 1..(BufCap + 1) : i > f.sz => mem[t][i] = f.mem0[i]
                /\ \A i \in 0..(f.sz - 1) : mem[t][i + 1] = LowByte(LcgIter(x0, i + 1))
                /\ hist[t].steps = f.steps0 + 1
                /\ rndX[t] = LcgIter(hist[t].seed, f.steps0 + 1)
                /\ f.ret = x0

\* util_rndBuf returns after filling the largest buffer, in a thread that
\* had drawn from its generator before.
C7_Witness ==
    \E t \in Threads :
        /\ pc[t] = "ret" /\ frame[t].op = "buf" /\ frame[t].sz = BufCap
        /\ frame[t].steps0 >= 1

\* ------------------------------------------------------------------------
\* Properties of fastArray64Search (checked under SpecSearch).
\* ------------------------------------------------------------------------

\* The positions of the array that hold k.
Occurrences(arr, k) == {i \in 1..Len(arr) : arr[i] = k}

\* Whether some value occurs more than once.
HasDuplicates(arr) == \E i \in 1..(Len(arr) - 1) : arr[i] = arr[i + 1]

\* The call returned an index that holds the key.
FoundKey ==
    /\ sres = "returned"
    /\ InBounds(array, sret)
    /\ Elem(array, sret) = key

\* The signals that end a call after undefined behaviour.
FaultEnds == {"sigsegv", "sigfpe"}

\* C3: on an array of length >= 1, a key that occurs exactly once is
\* found at its index, an absent key gives -1, and a one-element array
\* gives 0 or -1 as its element equals the key or not.
C3_SearchResult ==
    (spc = "done" /\ Len(array) >= 1) =>
        /\ Cardinality(Occurrences(array, key)) = 1 => FoundKey
        /\ Occurrences(array, key) = {} => sres = "returned" /\ sret = NotFound
        /\ Len(array) = 1 =>
              /\ sres = "returned"
              /\ sret = IF array[1] = key THEN Zero64 ELSE NotFound

\* The search has ended after two or more probes on an array of three or
\* more elements that holds the key once.
C3_Witness ==
    /\ spc = "done" /\ Len(array) >= 3 /\ iters >= 2
    /\ Cardinality(Occurrences(array, key)) = 1
    /\ FoundKey

\* C4: a call with arraySz = 0 is rejected before anything is read:
\* high is never the wrapped arraySz - 1 and no read leaves the array.
C4_ZeroLengthRejected ==
    Len(array) = 0 =>
        /\ spc # "call" => high # Max64
        /\ ~strayed /\ sres \notin FaultEnds

\* Among the ascending arrays with a run of duplicates there is one, holding
\* the key, on which the search returns -1.
SomeDuplicateArrayMisses ==
    \E arr \in SortedArrays \cup ScenarioArrays :
        /\ Len(arr) >= 1 /\ HasDuplicates(arr)
        /\ \E k \in Vals \cup ScenarioKeys :
              Occurrences(arr, k) # {} /\ fastArray64Search(arr, k) = NotFound

\* C8 as claimed: a search on an array with duplicates gives low only if
\* array[low] is the key when the loop exits and otherwise -1 although the
\* key is present, so that some array with duplicates makes the search miss
\* a key it holds; and the search for 5 in [1,3,5,5,5,9,20] returns 2.
C8_PresentKeyCanBeMissed ==
    (spc = "done" /\ Len(array) >= 1 /\ HasDuplicates(array)
                  /\ Occurrences(array, key) # {}) =>
        /\ branch # "eq" => sret = ExitResult(Elem(array, low), low, key)
        /\ SomeDuplicateArrayMisses
        /\ (array \in ScenarioArrays /\ key = U64Of(5)) => sret = U64Of(2)

\* C8 as amended: on every ascending array with duplicates, a key that
\* occurs in the array is found (the result is an index that holds it, never
\* -1); after the loop the result is low, and array[low] is the key; the
\* search for 5 in [1,3,5,5,5,9,20] returns 2.
C8_DuplicatesStillFound ==
    (spc = "done" /\ Len(array) >= 1 /\ HasDuplicates(array)
                  /\ Occurrences(array, key) # {}) =>
        /\ FoundKey
        /\ sret # NotFound
        /\ branch # "eq" => sret = low
        /\ (array \in ScenarioArrays /\ key = U64Of(5)) => sret = U64Of(2)

\* The search for 5 in [1,3,5,5,5,9,20] has returned.
C8_Witness ==
    /\ spc = "done" /\ sres = "returned"
    /\ array \in ScenarioArrays /\ Len(array) > 1 /\ key = U64Of(5)
    /\ sret = U64Of(2)

\* x <= y for two 16-limb products.
WideLe(x, y) == LimbCmp[x, y, 16] <= 0

\* C9: on an array of length >= 1 the bracket stays inside the array with
\* low <= high, the divisor is never 0, the product in the probe does not
\* exceed high - low (so it cannot wrap), the probe lies in the bracket,
\* mid - 1 is never taken at mid = low nor mid + 1 at mid = high, and no
\* read leaves the array.
C9_BracketSafe ==
    Len(array) >= 1 =>
        /\ ~strayed /\ outside = {} /\ sres \notin FaultEnds
        /\ spc \in {"guard", "body", "exit"} =>
              /\ U64Le(low, high)
              /\ InBounds(array, high)
        /\ spc = "body" =>
              LET al == Elem(array, low)
                  ah == Elem(array, high)
                  m  == Probe(low, high, al, ah, key)
              IN  /\ U64Sub(ah, al) # Zero64
                  /\ WideLe(WideMul(U64Sub(key, al), Ratio(low, high, al, ah)),
                            U64Sub(high, low) \o Zero64)
                  /\ U64Le(low, m) /\ U64Le(m, high)
        /\ branch # "none" => U64Le(plow, mid) /\ U64Le(mid, phigh)
        /\ branch = "gt" => mid # plow
        /\ branch = "lt" => mid # phigh

\* The loop body is about to probe strictly inside the bracket: the ratio
\* is at least 1 and the key is above array[low].
C9_Witness ==
    /\ spc = "body" /\ Len(array) >= 3
    /\ Probe(low, high, Elem(array, low), Elem(array, high), key) # low
    /\ U64Lt(Probe(low, high, Elem(array, low), Elem(array, high), key), high)

\* C10: on an array of length >= 1 every loop body that does not return
\* makes high - low strictly smaller, the body runs at most length - 1
\* times, and the call ends.
C10_SearchTerminates ==
    /\ [](Len(array) >= 1 => iters <= Len(array) - 1)
    /\ [][(Len(array) >= 1 /\ spc = "body" /\ spc' = "guard") =>
              U64Lt(U64Sub(high', low'), U64Sub(high, low))]_vars
    /\ (Len(array) >= 1) => <>(spc = "done")

\* The call has ended after length - 1 loop bodies, each of which probed
\* low itself.
C10_Witness ==
    /\ spc = "done" /\ Len(array) >= 3
    /\ iters = Len(array) - 1

====
